---- MODULE Spec2Model ----
(***************************************************************************)
(* Gravity and Orbits: the scene state machine (save / rewind / reset),    *)
(* the model-level step and reset, and the physics engine they drive.      *)
(*                                                                         *)
(* GravityAndOrbitsScene (src/js/common/GravityAndOrbitsScene.js) and      *)
(* GravityAndOrbitsModel (src/unnamed/part_002) are translated from their  *)
(* code.  Body, RewindableProperty, GravityAndOrbitsClock and              *)
(* GravityAndOrbitsPhysicsEngine, which those files import, are modelled   *)
(* from the written specification (sections 3 and 4.1 - 4.4).              *)
(*                                                                         *)
(* Quantities are integers in scaled units; a Vector2 is a record [x, y].  *)
(***************************************************************************)
EXTENDS Integers, Sequences, FiniteSets, TLC

VARIABLES
  isPlayingProperty,       \* GravityAndOrbitsModel.isPlayingProperty
  gravityEnabledProperty,  \* GravityAndOrbitsModel.gravityEnabledProperty
  steppingProperty,        \* GravityAndOrbitsModel.steppingProperty
  rewindingProperty,       \* GravityAndOrbitsModel.rewindingProperty
  timeSpeedProperty,       \* GravityAndOrbitsModel.timeSpeedProperty
  showProperties,          \* the six show...Property toggles, by name
  sceneProperty,           \* GravityAndOrbitsModel.sceneProperty: the selected scene
  scenes,                  \* per scene: the GravityAndOrbitsScene (a record, see Scene)
  lastOp,                  \* history: the operation that produced this state
  opCount,                 \* history: the number of operations so far
  saveWhilePlaying,        \* history: saveState() has run with isPlaying true
  savedState,              \* history: per scene, the values at the last saveState(), or NoSave
  engine,                  \* a GravityAndOrbitsPhysicsEngine driven on its own (see EngineSpec)
  io,                      \* rewindable properties and the RewindablePropertyIO cache (see IOSpec)
  mode                     \* a legacy GravityAndOrbitsMode (see ModeSpec)

vars == << isPlayingProperty, gravityEnabledProperty, steppingProperty, rewindingProperty,
           timeSpeedProperty, showProperties, sceneProperty, scenes,
           lastOp, opCount, saveWhilePlaying, savedState, engine, io, mode >>

\* the components that a specification does not exercise stay as they are
Idle == "idle"

----------------------------------------------------------------------------
(* Bounds of the model *)

\* number of operations (user actions and animation frames) in a run
MaxOps == 6

----------------------------------------------------------------------------
(* Vector2 *)

Vec(x, y) == [x |-> x, y |-> y]
ZERO == Vec(0, 0)
plus(a, b) == Vec(a.x + b.x, a.y + b.y)
minus(a, b) == Vec(a.x - b.x, a.y - b.y)
timesScalar(a, k) == Vec(a.x * k, a.y * k)
Abs(n) == IF n < 0 THEN -n ELSE n
\* division of reals, truncated toward zero on the integer grid
Quot(a, b) == IF a < 0 THEN -((-a) \div b) ELSE a \div b
dividedScalar(a, k) == Vec(Quot(a.x, k), Quot(a.y, k))
magnitudeSquared(a) == a.x * a.x + a.y * a.y
ISqrt(n) == CHOOSE r \in 0..n : r * r <= n /\ (r + 1) * (r + 1) > n
magnitude(a) == ISqrt(magnitudeSquared(a))

----------------------------------------------------------------------------
(* The scenes and their bodies (SceneFactory), with scaled preset values *)

Scenes == {"starPlanet", "planetSatellite"}
InitialScene == "starPlanet"

BodiesOf(s) ==
  IF s = "starPlanet" THEN {"star", "planet"}
  ELSE IF s = "starPlanetMoon" THEN {"star", "planet", "moon"}
  ELSE {"planet", "satellite"}

\* BodyConfiguration( mass, radius, x, y, vx, vy )
BodyConfiguration(s, b) ==
  IF s = "starPlanet"
  THEN IF b = "star"
       THEN [mass |-> 8, radius |-> 1, position |-> Vec(0, 0), velocity |-> Vec(0, 0)]
       ELSE [mass |-> 1, radius |-> 1, position |-> Vec(4, 0), velocity |-> Vec(0, 0)]
  ELSE IF s = "starPlanetMoon"
  THEN IF b = "star"
       THEN [mass |-> 8, radius |-> 1, position |-> Vec(0, 0), velocity |-> Vec(0, 0)]
       ELSE IF b = "planet"
       THEN [mass |-> 2, radius |-> 1, position |-> Vec(5, 0), velocity |-> Vec(0, 1)]
       ELSE [mass |-> 1, radius |-> 1, position |-> Vec(8, 0), velocity |-> Vec(0, 1)]
  ELSE IF b = "planet"
       THEN [mass |-> 8, radius |-> 1, position |-> Vec(0, 0), velocity |-> Vec(0, 0)]
       ELSE [mass |-> 1, radius |-> 1, position |-> Vec(3, 0), velocity |-> Vec(0, 1)]

\* the gravitational constant, in the scaled units of the model
G == 2

\* the scene's configured dt per tick, and the speed multiplier
SceneDt(s) == 1
TimeSpeeds == {"SLOW", "NORMAL", "FAST"}
SpeedScale(speed) == IF speed = "FAST" THEN 2 ELSE 1

ShowNames == {"showGravityForce", "showVelocity", "showPath", "showGrid", "showMass",
              "showMeasuringTape"}

\* what the user can enter: drag targets, velocity edits, mass slider values
UserPositions == {Vec(1, 0)}
UserVelocities == {Vec(1, 0)}
UserMasses == {1, 2}
\* the wall-clock time of an animation frame, as handed to step( dt )
WallDts == {0, 1, 2}
\* the body of each scene whose mass slider is moved
UserMassBodies(s) == IF s = "starPlanet" THEN {"planet"} ELSE {"satellite"}

----------------------------------------------------------------------------
(* RewindableProperty (specification section 3 / 4.1) *)

RewindableProperty(v) == [value |-> v, rewindValue |-> v]
RP_set(p, v) == [p EXCEPT !.value = v]
RP_storeRewindValue(p) == [p EXCEPT !.rewindValue = p.value]
RP_rewind(p) == [p EXCEPT !.value = p.rewindValue]
\* variant: reset restores the value and leaves the rewind point where it was
RP_reset_keepsRewindValue(p, initial) == [p EXCEPT !.value = initial]
RP_reset(p, initial) == [value |-> initial, rewindValue |-> initial]

----------------------------------------------------------------------------
(* Body (specification section 3) *)

Body(s, b) ==
  [ position |-> RewindableProperty(BodyConfiguration(s, b).position),
    velocity |-> RewindableProperty(BodyConfiguration(s, b).velocity),
    mass     |-> RewindableProperty(BodyConfiguration(s, b).mass),
    force    |-> ZERO,
    collided |-> FALSE,
    clockTicksSinceExplosion |-> 0,
    path     |-> << >> ]

\* save(): anchor position, velocity and mass as the rewind point
saveBodyState(body) ==
  [body EXCEPT !.position = RP_storeRewindValue(@),
               !.velocity = RP_storeRewindValue(@),
               !.mass     = RP_storeRewindValue(@)]

\* variant: only the position is restored
Body_rewind_positionOnly(body) ==
  [body EXCEPT !.position = RP_rewind(@)]

\* rewind(): restore position, velocity and mass to the rewind point
Body_rewind(body) ==
  [body EXCEPT !.position = RP_rewind(@),
               !.velocity = RP_rewind(@),
               !.mass     = RP_rewind(@)]

\* reset of a body: original values, rewind point re-anchored there, collision
\* cleared; the body is as it was at construction
Body_reset(s, b, body) ==
  [body EXCEPT !.position = RP_reset(@, BodyConfiguration(s, b).position),
               !.velocity = RP_reset(@, BodyConfiguration(s, b).velocity),
               !.mass     = RP_reset(@, BodyConfiguration(s, b).mass),
               !.collided = FALSE,
               !.clockTicksSinceExplosion = 0,
               !.path     = << >>]

\* the values a rewind restores, as one record
Values(body) == [position |-> body.position.value, velocity |-> body.velocity.value,
                 mass |-> body.mass.value]
RewindValues(body) == [position |-> body.position.rewindValue,
                       velocity |-> body.velocity.rewindValue,
                       mass |-> body.mass.rewindValue]
InitialValues(s, b) == [position |-> BodyConfiguration(s, b).position,
                        velocity |-> BodyConfiguration(s, b).velocity,
                        mass |-> BodyConfiguration(s, b).mass]

----------------------------------------------------------------------------
(* GravityAndOrbitsPhysicsEngine (specification section 4.2).  bs is the    *)
(* body set of scene s: a function from BodiesOf(s) to Body records.        *)

radius(s, b) == BodyConfiguration(s, b).radius

\* variant: the force on b is computed from b's own mass alone
getForce_ownMass(bs, b, c) ==
  LET d  == minus(bs[c].position.value, bs[b].position.value)
      r2 == magnitudeSquared(d)
      F  == (G * bs[b].mass.value * bs[b].mass.value) \div r2
  IN  IF r2 = 0 THEN ZERO
      ELSE Vec(Quot(F * d.x, magnitude(d)), Quot(F * d.y, magnitude(d)))

\* gravitational force on body b exerted by body c: G m1 m2 / r^2 along the
\* line of centers; no force is computed at zero distance
getForce(bs, b, c) ==
  LET d  == minus(bs[c].position.value, bs[b].position.value)
      r2 == magnitudeSquared(d)
      F  == (G * bs[b].mass.value * bs[c].mass.value) \div r2
  IN  IF r2 = 0 THEN ZERO
      ELSE Vec(Quot(F * d.x, magnitude(d)), Quot(F * d.y, magnitude(d)))

RECURSIVE sumForces(_, _, _)
sumForces(bs, b, cs) ==
  IF cs = {} THEN ZERO
  ELSE LET c == CHOOSE c \in cs : TRUE
       IN  plus(getForce(bs, b, c), sumForces(bs, b, cs \ {c}))

\* variant: collided bodies still attract the others
netForce_countsCollided(bs, b, gravityEnabled) ==
  IF ~gravityEnabled \/ bs[b].collided THEN ZERO
  ELSE sumForces(bs, b, DOMAIN bs \ {b})

\* variant: the gravity switch is not looked at
netForce_ignoresSwitch(bs, b, gravityEnabled) ==
  IF bs[b].collided THEN ZERO
  ELSE sumForces(bs, b, {c \in DOMAIN bs \ {b} : ~bs[c].collided})

\* net force on b: all non-collided other bodies; zero with gravity disabled
netForce(bs, b, gravityEnabled) ==
  IF ~gravityEnabled \/ bs[b].collided THEN ZERO
  ELSE sumForces(bs, b, {c \in DOMAIN bs \ {b} : ~bs[c].collided})

updateForceVectors(bs, gravityEnabled) ==
  [b \in DOMAIN bs |-> [bs[b] EXCEPT !.force = netForce(bs, b, gravityEnabled)]]

\* velocity by a dt, then position by the new velocity dt; collided bodies are inert
integrate(body, dt) ==
  IF body.collided THEN body
  ELSE LET a == dividedScalar(body.force, body.mass.value)
           v == plus(body.velocity.value, timesScalar(a, dt))
       IN  [body EXCEPT !.velocity = RP_set(@, v),
                        !.position = RP_set(@, plus(body.position.value, timesScalar(v, dt)))]

overlap(s, bs, b, c) ==
  LET sum == radius(s, b) + radius(s, c)
  IN  magnitudeSquared(minus(bs[b].position.value, bs[c].position.value)) < sum * sum

\* every pair closer than the sum of its radii: both collided, velocity zero
collide(s, bs) ==
  [b \in DOMAIN bs |->
     IF \E c \in DOMAIN bs \ {b} : overlap(s, bs, b, c)
     THEN [bs[b] EXCEPT !.collided = TRUE, !.velocity = RP_set(@, ZERO)]
     ELSE bs[b]]

\* the capacity of a path: about 1.5 default orbital periods
defaultOrbitalPeriod(s) == 2
getMaxPathLength(s) == (3 * defaultOrbitalPeriod(s) + 2 * SceneDt(s) - 1) \div (2 * SceneDt(s))

\* variant: at capacity the newest entry makes room
addPathPoint_evictsNewest(s, path, p) ==
  IF Len(path) >= getMaxPathLength(s)
  THEN Append(SubSeq(path, 1, Len(path) - 1), p)
  ELSE Append(path, p)

\* bounded FIFO of recent positions
addPathPoint(s, path, p) ==
  IF Len(path) >= getMaxPathLength(s) THEN Append(Tail(path), p) ELSE Append(path, p)

recordPath(s, bs) ==
  [b \in DOMAIN bs |->
     IF bs[b].collided THEN bs[b]
     ELSE [bs[b] EXCEPT !.path = addPathPoint(s, @, bs[b].position.value)]]

\* variant: collisions are looked for only while gravity is enabled
PhysicsEngine_step_collidesUnderGravity(s, bs, dt, gravityEnabled) ==
  LET forced == updateForceVectors(bs, gravityEnabled)
      moved  == [b \in DOMAIN bs |-> integrate(forced[b], dt)]
  IN  recordPath(s, IF gravityEnabled THEN collide(s, moved) ELSE moved)

\* one sub-step of the engine
PhysicsEngine_step(s, bs, dt, gravityEnabled) ==
  LET forced == updateForceVectors(bs, gravityEnabled)
      moved  == [b \in DOMAIN bs |-> integrate(forced[b], dt)]
  IN  recordPath(s, collide(s, moved))

resetBodies(s, bs, gravityEnabled) ==
  updateForceVectors([b \in DOMAIN bs |-> Body_reset(s, b, bs[b])], gravityEnabled)

----------------------------------------------------------------------------
(* GravityAndOrbitsClock (specification section 4.3), as part of the scene *)
(* record: isRunning and time.                                              *)

setSimulationTime(sc, time) == [sc EXCEPT !.time = time]
resetSimulationTime(sc) == [sc EXCEPT !.time = 0]

\* variant: the simulation time stays where it is
Clock_step_keepsTime(s, sc, wallDt, speed, gravityEnabled) ==
  IF ~sc.isRunning THEN sc
  ELSE LET dt == SceneDt(s) * SpeedScale(speed)
       IN  [sc EXCEPT !.bodies = PhysicsEngine_step(s, @, dt, gravityEnabled)]

\* variant: the step handed to the engine is proportional to the wall-clock time
Clock_step_scalesWallDt(s, sc, wallDt, speed, gravityEnabled) ==
  IF ~sc.isRunning THEN sc
  ELSE LET dt == wallDt * SceneDt(s) * SpeedScale(speed)
       IN  [sc EXCEPT !.time = @ + dt,
                      !.bodies = PhysicsEngine_step(s, @, dt, gravityEnabled)]

\* step( wallDt ): a no-op unless running; else one tick: advance the simulation
\* time by the scene's dt scaled by the speed, and step the engine by it
Clock_step(s, sc, wallDt, speed, gravityEnabled) ==
  IF ~sc.isRunning THEN sc
  ELSE LET dt == SceneDt(s) * SpeedScale(speed)
       IN  [sc EXCEPT !.time = @ + dt,
                      !.bodies = PhysicsEngine_step(s, @, dt, gravityEnabled)]

----------------------------------------------------------------------------
(* GravityAndOrbitsScene.  A scene is a record:                            *)
(*   activeProperty, deviatedFromDefaultsProperty, zoomLevelProperty,      *)
(*   isRunning and time (its clock), bodies (its physics engine's bodies). *)

\* the 'active' argument SceneFactory passes to the constructor
InitialActive(s) == s = InitialScene

\* variant: the clock follows the play button alone
multilink_ignoresActive(playButtonPressed, active) == playButtonPressed

\* Property.multilink( [ isPlayingProperty, activeProperty ], ... )
multilink(playButtonPressed, active) == playButtonPressed /\ active

setRunning(sc, playButtonPressed) ==
  [sc EXCEPT !.isRunning = multilink(playButtonPressed, sc.activeProperty)]

setActive(sc, active, playButtonPressed) ==
  setRunning([sc EXCEPT !.activeProperty = active], playButtonPressed)

setDeviatedFromDefaults(sc) == [sc EXCEPT !.deviatedFromDefaultsProperty = TRUE]

\* body.massProperty.link( setDeviatedFromDefaults ): runs when a mass value changes
massListener(sc, before) ==
  IF \E b \in DOMAIN before : before[b].mass.value # sc.bodies[b].mass.value
  THEN setDeviatedFromDefaults(sc)
  ELSE sc

\* variant: the loop stops one body short
saveState_skipsBody(sc) ==
  LET last == CHOOSE b \in DOMAIN sc.bodies : TRUE
  IN  [sc EXCEPT !.bodies = [b \in DOMAIN sc.bodies |->
         IF b = last THEN sc.bodies[b] ELSE saveBodyState(sc.bodies[b])]]

\* saveState(): saveBodyState() on every body
saveState(sc) ==
  [sc EXCEPT !.bodies = [b \in DOMAIN sc.bodies |-> saveBodyState(sc.bodies[b])]]

\* variant: the position listener saves as the velocity listener does
positionListenerSaves_likeVelocity(isPlaying) == ~isPlaying

\* the userModifiedPositionEmitter listener sets the flag and saves nothing
positionListenerSaves(isPlaying) == FALSE

\* variant: the velocity listener saves without looking at the play flag
velocityListenerSaves_always(isPlaying) == TRUE

\* the userModifiedVelocityEmitter listener: if ( !isPlayingProperty.get() ) saveState()
velocityListenerSaves(isPlaying) == ~isPlaying

userModifiedPositionListener(sc, isPlaying) ==
  IF positionListenerSaves(isPlaying)
  THEN saveState(setDeviatedFromDefaults(sc))
  ELSE setDeviatedFromDefaults(sc)

userModifiedVelocityListener(sc, isPlaying) ==
  IF velocityListenerSaves(isPlaying)
  THEN saveState(setDeviatedFromDefaults(sc))
  ELSE setDeviatedFromDefaults(sc)

\* the stage rectangle, and the zoom configuration of each scene; lengths are
\* scaled so that the factor 1.5E-9 of getTargetRectangle is 1
PLAY_AREA_WIDTH == 24
PLAY_AREA_HEIGHT == 16
defaultZoomScale(s) == IF s = "planetSatellite" THEN 2 ELSE 1
zoomOffset(s) == IF s = "planetSatellite" THEN Vec(2, 0) ELSE ZERO

Bounds2(minX, minY, maxX, maxY) == [minX |-> minX, minY |-> minY, maxX |-> maxX, maxY |-> maxY]

\* the rectangle that should be viewed in the model
getTargetRectangle(targetScale, targetCenterModelPoint) ==
  LET z == targetScale
      modelWidth == Quot(PLAY_AREA_WIDTH, z)
      modelHeight == Quot(PLAY_AREA_HEIGHT, z)
  IN  [ x |-> Quot(-modelWidth, 2) + targetCenterModelPoint.x,
        y |-> Quot(-modelHeight, 2) + targetCenterModelPoint.y,
        width |-> modelWidth,
        height |-> modelHeight ]

\* ModelViewTransform2.createRectangleInvertedYMapping: the model rectangle is
\* mapped onto the view rectangle, the model's minY onto the view's maxY
createRectangleInvertedYMapping(modelBounds, viewBounds) ==
  LET xScale == Quot(viewBounds.maxX - viewBounds.minX, modelBounds.maxX - modelBounds.minX)
      yScale == -Quot(viewBounds.maxY - viewBounds.minY, modelBounds.maxY - modelBounds.minY)
  IN  [ xScale |-> xScale, yScale |-> yScale,
        xOffset |-> viewBounds.minX - xScale * modelBounds.minX,
        yOffset |-> viewBounds.maxY - yScale * modelBounds.minY ]

modelToViewPosition(transform, p) ==
  Vec(transform.xScale * p.x + transform.xOffset, transform.yScale * p.y + transform.yOffset)

\* createTransform(): the model bounds at the scene's zoom level, stored in
\* modelBoundsProperty, and the transform from them to the stage
createTransform(sc, zoomScale, offset) ==
  LET targetRectangle == getTargetRectangle(zoomScale * sc.zoomLevelProperty, offset)
      modelBounds == Bounds2(targetRectangle.x, targetRectangle.y,
                             targetRectangle.x + targetRectangle.width,
                             targetRectangle.y + targetRectangle.height)
  IN  [ modelBounds |-> modelBounds,
        transform |-> createRectangleInvertedYMapping(
                        modelBounds, Bounds2(0, 0, PLAY_AREA_WIDTH, PLAY_AREA_HEIGHT)) ]

\* the listener linked to zoomLevelProperty
zoomListener(s, sc) ==
  LET created == createTransform(sc, defaultZoomScale(s), zoomOffset(s))
  IN  [sc EXCEPT !.modelBoundsProperty = created.modelBounds,
                 !.transformProperty = created.transform]

\* variant: the zoom level is set and the listener does not run
setZoomLevel_unlinked(s, sc, z) ==
  [sc EXCEPT !.zoomLevelProperty = z]

\* zoomLevelProperty.set( z ): the listener runs when the value changes
setZoomLevel(s, sc, z) ==
  IF z = sc.zoomLevelProperty THEN sc
  ELSE zoomListener(s, [sc EXCEPT !.zoomLevelProperty = z])

\* the scene as constructed: the transform is created and the zoom listener
\* linked, the flag is false, then every body is added, and linking the mass
\* listener runs it once
Scene(s) ==
  setDeviatedFromDefaults(
    zoomListener(s,
      [ activeProperty |-> InitialActive(s),
        deviatedFromDefaultsProperty |-> FALSE,
        zoomLevelProperty |-> 1,
        modelBoundsProperty |-> << >>,
        transformProperty |-> << >>,
        isRunning |-> multilink(FALSE, InitialActive(s)),
        time |-> 0,
        bodies |-> updateForceVectors([b \in BodiesOf(s) |-> Body(s, b)], TRUE) ]))

\* variant: the bodies are rewound, not reset
resetScene_rewinds(s, sc, gravityEnabled) ==
  LET rewound == [b \in DOMAIN sc.bodies |->
                    [Body_rewind(sc.bodies[b]) EXCEPT !.collided = FALSE]]
      reset   == massListener([sc EXCEPT !.bodies = updateForceVectors(rewound, gravityEnabled)],
                              sc.bodies)
      flag    == [reset EXCEPT !.deviatedFromDefaultsProperty = FALSE]
  IN  setSimulationTime(flag, 0)

\* variant: the flag is cleared before the bodies are reset
resetScene_flagFirst(s, sc, gravityEnabled) ==
  LET flag  == [sc EXCEPT !.deviatedFromDefaultsProperty = FALSE]
      reset == massListener([flag EXCEPT !.bodies = resetBodies(s, @, gravityEnabled)],
                            sc.bodies)
  IN  setSimulationTime(reset, 0)

\* resetScene(): resetBodies(), then the flag, then the clock
resetScene(s, sc, gravityEnabled) ==
  LET reset == massListener([sc EXCEPT !.bodies = resetBodies(s, @, gravityEnabled)],
                            sc.bodies)
      flag  == [reset EXCEPT !.deviatedFromDefaultsProperty = FALSE]
  IN  setSimulationTime(flag, 0)

\* variant: the loop stops one body short
rewind_skipsBody(sc, gravityEnabled) ==
  LET timed   == setSimulationTime(sc, 0)
      last    == CHOOSE b \in DOMAIN sc.bodies : TRUE
      rewound == [b \in DOMAIN sc.bodies |->
                    IF b = last THEN sc.bodies[b] ELSE Body_rewind(sc.bodies[b])]
  IN  massListener([timed EXCEPT !.bodies = updateForceVectors(rewound, gravityEnabled)],
                   sc.bodies)

\* variant: the clock is left where it was
rewind_keepsTime(sc, gravityEnabled) ==
  LET rewound == [b \in DOMAIN sc.bodies |-> Body_rewind(sc.bodies[b])]
  IN  massListener([sc EXCEPT !.bodies = updateForceVectors(rewound, gravityEnabled)],
                   sc.bodies)

\* rewind(): clock to 0, every body rewound, force vectors updated
rewind(sc, gravityEnabled) ==
  LET timed   == setSimulationTime(sc, 0)
      rewound == [b \in DOMAIN sc.bodies |-> Body_rewind(sc.bodies[b])]
  IN  massListener([timed EXCEPT !.bodies = updateForceVectors(rewound, gravityEnabled)],
                   sc.bodies)

\* variant: the flag is raised only after the clock has been set back
rewindStatements_flagLate(sc, gravityEnabled) ==
  LET timed   == setSimulationTime(sc, 0)
      rewound == massListener([timed EXCEPT !.bodies =
                                 [b \in DOMAIN sc.bodies |-> Body_rewind(sc.bodies[b])]],
                              sc.bodies)
      forced  == [rewound EXCEPT !.bodies = updateForceVectors(@, gravityEnabled)]
  IN  << [rewinding |-> FALSE, scene |-> timed],
         [rewinding |-> TRUE,  scene |-> timed],
         [rewinding |-> TRUE,  scene |-> rewound],
         [rewinding |-> TRUE,  scene |-> forced],
         [rewinding |-> FALSE, scene |-> forced] >>

\* rewind(), statement by statement: the rewinding flag and the scene after
\* rewindingProperty.set( true ), setSimulationTime( 0 ), the loop of
\* bodies[ i ].rewind(), updateForceVectors(), rewindingProperty.set( false )
rewindStatements(sc, gravityEnabled) ==
  LET timed   == setSimulationTime(sc, 0)
      rewound == massListener([timed EXCEPT !.bodies =
                                 [b \in DOMAIN sc.bodies |-> Body_rewind(sc.bodies[b])]],
                              sc.bodies)
      forced  == [rewound EXCEPT !.bodies = updateForceVectors(@, gravityEnabled)]
  IN  << [rewinding |-> TRUE,  scene |-> sc],
         [rewinding |-> TRUE,  scene |-> timed],
         [rewinding |-> TRUE,  scene |-> rewound],
         [rewinding |-> TRUE,  scene |-> forced],
         [rewinding |-> FALSE, scene |-> forced] >>

\* reset(): active, flag, zoom, clock, then physicsEngine.resetAll()
Scene_reset(s, sc, playButtonPressed, gravityEnabled) ==
  LET active == setActive(sc, InitialActive(s), playButtonPressed)
      flag   == setZoomLevel(s, [active EXCEPT !.deviatedFromDefaultsProperty = FALSE], 1)
      timed  == resetSimulationTime(flag)
  IN  massListener([timed EXCEPT !.bodies = resetBodies(s, @, gravityEnabled)], sc.bodies)

----------------------------------------------------------------------------
(* GravityAndOrbitsModel *)

\* variant: the selected scene is activated, no scene is deactivated
updateActiveModule_onlyActivates(scs, selected, playButtonPressed) ==
  [s \in DOMAIN scs |->
     setActive(scs[s], scs[s].activeProperty \/ s = selected, playButtonPressed)]

\* updateActiveModule(): each scene is active iff it is the selected one
updateActiveModule(scs, selected, playButtonPressed) ==
  [s \in DOMAIN scs |-> setActive(scs[s], s = selected, playButtonPressed)]

\* the listener of sceneProperty: the active flags follow the selection
sceneListener(scs, selected, playButtonPressed) ==
  updateActiveModule(scs, selected, playButtonPressed)

\* variant: the counter of every body is increased
tickExplosions_everyBody(bs) ==
  [b \in DOMAIN bs |-> [bs[b] EXCEPT !.clockTicksSinceExplosion = @ + 1]]

\* collision animations proceed outside of the model step
tickExplosions(bs) ==
  [b \in DOMAIN bs |->
     IF bs[b].collided
     THEN [bs[b] EXCEPT !.clockTicksSinceExplosion = @ + 1]
     ELSE bs[b]]

\* dt = Math.min( 1, dt )
limitDt(dt) == IF dt < 1 THEN dt ELSE 1

\* variant: the counters and clocks of all scenes are stepped
GravityAndOrbitsModel_step_allScenes(scs, selected, isPlaying, speed, gravityEnabled, dt) ==
  [s \in DOMAIN scs |->
     LET ticked == [scs[s] EXCEPT !.bodies = tickExplosions(@)]
     IN  IF isPlaying
         THEN Clock_step(s, ticked, limitDt(dt), speed, gravityEnabled)
         ELSE ticked]

\* variant: the engine is stepped whether or not the play button is pressed
GravityAndOrbitsModel_step_whilePaused(scs, selected, isPlaying, speed, gravityEnabled, dt) ==
  LET ticked == [scs[selected] EXCEPT !.bodies = tickExplosions(@)]
      size   == SceneDt(selected) * SpeedScale(speed)
  IN  [scs EXCEPT ![selected] =
         [ticked EXCEPT !.time = @ + size,
                        !.bodies = PhysicsEngine_step(selected, @, size, gravityEnabled)]]

\* step( dt ): the selected scene's explosion counters, then its clock if playing
GravityAndOrbitsModel_step(scs, selected, isPlaying, speed, gravityEnabled, dt) ==
  LET ticked == [scs[selected] EXCEPT !.bodies = tickExplosions(@)]
  IN  [scs EXCEPT ![selected] =
         IF isPlaying
         THEN Clock_step(selected, ticked, limitDt(dt), speed, gravityEnabled)
         ELSE ticked]

\* variant: only the selected scene is reset
GravityAndOrbitsModel_reset_selectedOnly(scs, selected) ==
  LET paused   == [s \in DOMAIN scs |-> setRunning(scs[s], FALSE)]
      switched == IF selected # InitialScene
                  THEN sceneListener(paused, InitialScene, FALSE)
                  ELSE paused
  IN  [s \in DOMAIN scs |->
         IF s = selected THEN Scene_reset(s, switched[s], FALSE, TRUE) ELSE switched[s]]

\* reset(): the play flag (its multilink pauses every clock), the scene selection
\* (its listener updates the active flags), then reset() of every scene
GravityAndOrbitsModel_reset(scs, selected) ==
  LET paused   == [s \in DOMAIN scs |-> setRunning(scs[s], FALSE)]
      switched == IF selected # InitialScene
                  THEN sceneListener(paused, InitialScene, FALSE)
                  ELSE paused
  IN  [s \in DOMAIN scs |-> Scene_reset(s, switched[s], FALSE, TRUE)]

----------------------------------------------------------------------------
(* History variables.  lastOp names the operation that produced the state   *)
(* and, for the operations that restore or save, facts about the state it   *)
(* was applied to.  savedState[s] holds the values anchored by the last     *)
(* saveState() of scene s since its construction or last reset, and whether *)
(* a value has changed since.                                               *)

Snapshot(sc) == [b \in DOMAIN sc.bodies |-> Values(sc.bodies[b])]
Anchors(sc) == [b \in DOMAIN sc.bodies |-> RewindValues(sc.bodies[b])]
InitialSnapshot(s) == [b \in BodiesOf(s) |-> InitialValues(s, b)]
NoSave(s) == [saved |-> FALSE, values |-> InitialSnapshot(s), mutated |-> FALSE]

Fact(name, holds) == IF holds THEN {name} ELSE {}

\* facts about the selected scene before an operation
PreFacts ==
  LET s  == sceneProperty
      sc == scenes[s]
  IN  Fact("edited", Snapshot(sc) # InitialSnapshot(s))
      \cup Fact("massEdited", \E b \in BodiesOf(s) :
                                sc.bodies[b].mass.value # BodyConfiguration(s, b).mass)
      \cup Fact("collided", \E b \in BodiesOf(s) : sc.bodies[b].collided)
      \cup Fact("timed", sc.time > 0)
      \cup Fact("unsaved", Snapshot(sc) # Anchors(sc))
      \cup Fact("switched", s # InitialScene)
      \cup Fact("shown", \E n \in ShowNames : showProperties[n])
      \cup Fact("gravityOff", ~gravityEnabledProperty)
      \cup Fact("speedChanged", timeSpeedProperty # "NORMAL")
      \cup Fact("zoomed", \E z \in Scenes : scenes[z].zoomLevelProperty # 1)

\* the bodies other than b have values that differ from their rewind points
OthersUnsaved(b) ==
  LET sc == scenes[sceneProperty]
  IN  Fact("othersUnsaved", \E c \in DOMAIN sc.bodies \ {b} :
                               Values(sc.bodies[c]) # RewindValues(sc.bodies[c]))

\* a scene other than the selected one has run
OthersTimed ==
  Fact("othersTimed", \E s \in Scenes \ {sceneProperty} : scenes[s].time > 0)

\* scene s holds a rewind point saved with values other than the original ones
SavedEdited(s) ==
  Fact("savedEdited", savedState[s].saved /\ Anchors(scenes[s]) # InitialSnapshot(s))

\* the operation before was a reset of a scene that held such a rewind point
AfterResetOfSaved ==
  Fact("afterResetOfSaved", lastOp.name \in {"resetScene", "reset"}
                               /\ "savedEdited" \in lastOp.pre)

\* one more operation
Op(name, pre) ==
  /\ UNCHANGED << engine, io, mode >>
  /\ opCount < MaxOps
  /\ opCount' = opCount + 1
  /\ lastOp' = [name |-> name, pre |-> pre]

\* the history after an operation on scene s that did (saves) or did not call saveState()
History(s, saves) ==
  /\ saveWhilePlaying' = (saveWhilePlaying \/ (saves /\ isPlayingProperty))
  /\ savedState' = [savedState EXCEPT ![s] =
       IF saves
       THEN [saved |-> TRUE, values |-> Snapshot(scenes'[s]), mutated |-> FALSE]
       ELSE IF @.saved /\ Snapshot(scenes'[s]) # Snapshot(scenes[s])
            THEN [@ EXCEPT !.mutated = TRUE]
            ELSE @]

----------------------------------------------------------------------------
(* The state machine *)

Init ==
  /\ isPlayingProperty = FALSE
  /\ gravityEnabledProperty = TRUE
  /\ steppingProperty = FALSE
  /\ rewindingProperty = FALSE
  /\ timeSpeedProperty = "NORMAL"
  /\ showProperties = [n \in ShowNames |-> FALSE]
  /\ sceneProperty = InitialScene
  /\ scenes = sceneListener([s \in Scenes |-> Scene(s)], InitialScene, FALSE)
  /\ lastOp = [name |-> "construct", pre |-> {}]
  /\ opCount = 0
  /\ saveWhilePlaying = FALSE
  /\ savedState = [s \in Scenes |-> NoSave(s)]
  /\ engine = Idle /\ io = Idle /\ mode = Idle

Globals == << gravityEnabledProperty, steppingProperty, rewindingProperty,
              timeSpeedProperty, showProperties >>

\* the play / pause button
TogglePlay ==
  /\ isPlayingProperty' = ~isPlayingProperty
  /\ scenes' = [s \in Scenes |-> setRunning(scenes[s], ~isPlayingProperty)]
  /\ Op("togglePlay", {})
  /\ UNCHANGED << Globals, sceneProperty, saveWhilePlaying, savedState >>

\* the scene radio buttons: sceneProperty.set( s ), whose listener updates the active flags
SelectScene(s) ==
  /\ s # sceneProperty
  /\ sceneProperty' = s
  /\ scenes' = sceneListener(scenes, s, isPlayingProperty)
  /\ Op("selectScene", {})
  /\ UNCHANGED << Globals, isPlayingProperty, saveWhilePlaying, savedState >>

\* one animation frame
Step ==
  \E dt \in WallDts :
      /\ scenes' = GravityAndOrbitsModel_step(scenes, sceneProperty, isPlayingProperty,
                                               timeSpeedProperty, gravityEnabledProperty, dt)
      /\ History(sceneProperty, FALSE)
      /\ Op("step", {})
      /\ UNCHANGED << Globals, isPlayingProperty, sceneProperty >>

\* the user drags a body of the selected scene
UserSetPosition(b, p) ==
  LET s == sceneProperty
      moved == [scenes[s] EXCEPT !.bodies[b].position = RP_set(@, p)]
  IN  /\ b \in BodiesOf(s)
      /\ scenes' = [scenes EXCEPT ![s] = userModifiedPositionListener(moved, isPlayingProperty)]
      /\ History(s, positionListenerSaves(isPlayingProperty))
      /\ Op("setPosition", {})
      /\ UNCHANGED << Globals, isPlayingProperty, sceneProperty >>

\* the user drags the velocity vector of a body of the selected scene
UserSetVelocity(b, v) ==
  LET s == sceneProperty
      edited == [scenes[s] EXCEPT !.bodies[b].velocity = RP_set(@, v)]
  IN  /\ b \in BodiesOf(s)
      /\ scenes' = [scenes EXCEPT ![s] = userModifiedVelocityListener(edited, isPlayingProperty)]
      /\ History(s, velocityListenerSaves(isPlayingProperty))
      /\ Op("setVelocity", PreFacts \cup OthersUnsaved(b))
      /\ UNCHANGED << Globals, isPlayingProperty, sceneProperty >>

\* the mass slider of a mass-settable body of the selected scene
UserSetMass(b, m) ==
  LET s == sceneProperty
      edited == [scenes[s] EXCEPT !.bodies[b].mass = RP_set(@, m)]
  IN  /\ b \in BodiesOf(s)
      /\ b \in UserMassBodies(s)
      /\ m # scenes[s].bodies[b].mass.value
      /\ scenes' = [scenes EXCEPT ![s] = massListener(edited, scenes[s].bodies)]
      /\ History(s, FALSE)
      /\ Op("setMass", {})
      /\ UNCHANGED << Globals, isPlayingProperty, sceneProperty >>

\* the reset button next to the selected scene
ResetScene ==
  LET s == sceneProperty
  IN  /\ scenes' = [scenes EXCEPT ![s] = resetScene(s, @, gravityEnabledProperty)]
      /\ savedState' = [savedState EXCEPT ![s] = NoSave(s)]
      /\ Op("resetScene", PreFacts \cup SavedEdited(s))
      /\ UNCHANGED << Globals, isPlayingProperty, sceneProperty, saveWhilePlaying >>

\* the rewind button: rewindingProperty is true during the call and false after it
Rewind ==
  LET s == sceneProperty
  IN  /\ scenes' = [scenes EXCEPT ![s] = rewind(@, gravityEnabledProperty)]
      /\ rewindingProperty' = FALSE
      /\ Op("rewind", PreFacts \cup AfterResetOfSaved)
      /\ UNCHANGED << gravityEnabledProperty, steppingProperty, timeSpeedProperty,
                      showProperties, isPlayingProperty, sceneProperty,
                      saveWhilePlaying, savedState >>

\* the reset-all button
ResetAll ==
  /\ showProperties' = [n \in ShowNames |-> FALSE]
  /\ isPlayingProperty' = FALSE
  /\ timeSpeedProperty' = "NORMAL"
  /\ gravityEnabledProperty' = TRUE
  /\ steppingProperty' = FALSE
  /\ rewindingProperty' = FALSE
  /\ sceneProperty' = InitialScene
  /\ scenes' = GravityAndOrbitsModel_reset(scenes, sceneProperty)
  /\ savedState' = [s \in Scenes |-> NoSave(s)]
  /\ Op("reset", PreFacts \cup OthersTimed \cup SavedEdited(InitialScene))
  /\ UNCHANGED saveWhilePlaying

Next ==
  \/ TogglePlay
  \/ \E s \in Scenes : SelectScene(s)
  \/ Step
  \/ \E b \in {"star", "planet", "satellite"}, p \in UserPositions : UserSetPosition(b, p)
  \/ \E b \in {"star", "planet", "satellite"}, v \in UserVelocities : UserSetVelocity(b, v)
  \/ \E b \in {"star", "planet", "satellite"}, m \in UserMasses : UserSetMass(b, m)
  \/ ResetScene
  \/ Rewind
  \/ ResetAll

Spec == Init /\ [][Next]_vars

----------------------------------------------------------------------------
(* The state machine under the settings of the control panel.  The gravity  *)
(* switch, the speed radio buttons, the show checkboxes and the zoom slider *)
(* only set their property, so a session is started with them already set;  *)
(* it then plays, steps, switches scene, drags bodies and resets all.       *)

\* the zoom slider positions
ZoomLevels == {1, 2}

SettingsInit ==
  /\ isPlayingProperty = FALSE
  /\ gravityEnabledProperty \in BOOLEAN
  /\ steppingProperty = FALSE
  /\ rewindingProperty = FALSE
  /\ timeSpeedProperty \in TimeSpeeds
  /\ showProperties \in {[n \in ShowNames |-> v] : v \in BOOLEAN}
  /\ sceneProperty = InitialScene
  /\ \E z \in ZoomLevels :
        scenes = [s \in Scenes |->
                    setZoomLevel(s, sceneListener([c \in Scenes |-> Scene(c)],
                                                  InitialScene, FALSE)[s], z)]
  /\ lastOp = [name |-> "construct", pre |-> {}]
  /\ opCount = 0
  /\ saveWhilePlaying = FALSE
  /\ savedState = [s \in Scenes |-> NoSave(s)]
  /\ engine = Idle /\ io = Idle /\ mode = Idle

SettingsNext ==
  \/ TogglePlay
  \/ \E s \in Scenes : SelectScene(s)
  \/ Step
  \/ \E b \in {"star", "planet", "satellite"}, p \in UserPositions : UserSetPosition(b, p)
  \/ ResetAll

SettingsSpec == SettingsInit /\ [][SettingsNext]_vars

----------------------------------------------------------------------------
(* The physics engine driven on its own: the three bodies of the star /     *)
(* planet / moon scene, placed by the user, stepped with the scene's dt,    *)
(* with velocity edits between the steps.  engine.prev holds the bodies     *)
(* before the last operation.                                               *)

EngineScene == "starPlanetMoon"

\* where the user has dragged the bodies before the first step
EnginePositions(b) ==
  IF b = "star" THEN {Vec(0, 0)}
  ELSE IF b = "planet" THEN {Vec(5, 0), Vec(3, 0)}
  ELSE {Vec(8, 0), Vec(4, 0), Vec(3, 3)}

\* the state of every component but the engine, as constructed
ModelIdle ==
  /\ isPlayingProperty = FALSE
  /\ gravityEnabledProperty = TRUE
  /\ steppingProperty = FALSE
  /\ rewindingProperty = FALSE
  /\ timeSpeedProperty = "NORMAL"
  /\ showProperties = [n \in ShowNames |-> FALSE]
  /\ sceneProperty = InitialScene
  /\ scenes = sceneListener([s \in Scenes |-> Scene(s)], InitialScene, FALSE)
  /\ lastOp = [name |-> "construct", pre |-> {}]
  /\ opCount = 0
  /\ saveWhilePlaying = FALSE
  /\ savedState = [s \in Scenes |-> NoSave(s)]

ModelUnchanged ==
  UNCHANGED << isPlayingProperty, gravityEnabledProperty, steppingProperty, rewindingProperty,
               timeSpeedProperty, showProperties, sceneProperty, scenes,
               lastOp, opCount, saveWhilePlaying, savedState >>

\* the engine's bodies as the bodies of a scene
EngineAsScene ==
  [ activeProperty |-> TRUE, deviatedFromDefaultsProperty |-> FALSE, zoomLevelProperty |-> 1,
    isRunning |-> FALSE, time |-> 0, bodies |-> engine.bodies ]

\* position, velocity, mass and collided flag of every body
Outcome(bs) ==
  [b \in DOMAIN bs |-> [values |-> Values(bs[b]), collided |-> bs[b].collided]]

\* history of the engine since the last saveState(): the outcome at the save,
\* the outcomes after 1, 2, ... steps of the first run, the number of rewinds,
\* and the number of steps since the save or the last rewind; no history
\* before a save and after a velocity edit
NoReplay == [saved |-> FALSE, start |-> << >>, first |-> << >>, rewinds |-> 0, k |-> 0]

EngineInit ==
  /\ ModelIdle
  /\ io = Idle /\ mode = Idle
  /\ \E g \in BOOLEAN :
     \E place \in [BodiesOf(EngineScene) -> UNION {EnginePositions(b) : b \in BodiesOf(EngineScene)}] :
        /\ \A b \in BodiesOf(EngineScene) : place[b] \in EnginePositions(b)
        /\ LET bs == [b \in BodiesOf(EngineScene) |->
                        [Body(EngineScene, b) EXCEPT !.position = RewindableProperty(place[b])]]
           IN  engine = [ bodies |-> updateForceVectors(bs, g), prev |-> updateForceVectors(bs, g),
                          gravityEnabled |-> g, steps |-> 0, last |-> "construct",
                          replay |-> NoReplay ]

\* physicsEngine.step( dt ), with the scene's dt
EngineStep ==
  /\ engine.steps < MaxOps
  /\ LET stepped == PhysicsEngine_step(EngineScene, engine.bodies, SceneDt(EngineScene),
                                       engine.gravityEnabled)
     IN  engine' = [engine EXCEPT
                     !.bodies = stepped,
                     !.prev = engine.bodies,
                     !.steps = @ + 1,
                     !.last = "step",
                     !.replay = IF ~@.saved THEN @
                                ELSE [@ EXCEPT !.k = @ + 1,
                                               !.first = IF engine.replay.rewinds = 0
                                                         THEN Append(@, Outcome(stepped))
                                                         ELSE @]]
  /\ UNCHANGED << io, mode >>
  /\ ModelUnchanged

\* a velocity edit of a body between two steps
EngineSetVelocity(b, v) ==
  /\ engine.steps < MaxOps
  /\ engine.bodies[b].velocity.value # v
  /\ engine' = [engine EXCEPT
                  !.bodies[b].velocity = RP_set(@, v),
                  !.prev = engine.bodies,
                  !.steps = @ + 1,
                  !.last = "setVelocity",
                  !.replay = NoReplay]
  /\ UNCHANGED << io, mode >>
  /\ ModelUnchanged

\* saveState() of the scene, while paused
EngineSave ==
  /\ engine.steps < MaxOps
  /\ engine' = [engine EXCEPT
                  !.bodies = saveState(EngineAsScene).bodies,
                  !.prev = engine.bodies,
                  !.steps = @ + 1,
                  !.last = "saveState",
                  !.replay = [saved |-> TRUE, start |-> Outcome(engine.bodies),
                              first |-> << >>, rewinds |-> 0, k |-> 0]]
  /\ UNCHANGED << io, mode >>
  /\ ModelUnchanged

\* rewind() of the scene, after at least one step since the save or the last rewind
EngineRewind ==
  /\ engine.steps < MaxOps
  /\ engine.replay.saved /\ engine.replay.k > 0
  /\ engine' = [engine EXCEPT
                  !.bodies = rewind(EngineAsScene, engine.gravityEnabled).bodies,
                  !.prev = engine.bodies,
                  !.steps = @ + 1,
                  !.last = "rewind",
                  !.replay = [@ EXCEPT !.rewinds = @ + 1, !.k = 0]]
  /\ UNCHANGED << io, mode >>
  /\ ModelUnchanged

EngineNext ==
  \/ EngineStep
  \/ EngineSave
  \/ EngineRewind
  \/ \E b \in BodiesOf(EngineScene), v \in UserVelocities : EngineSetVelocity(b, v)

EngineSpec == EngineInit /\ [][EngineNext]_vars

----------------------------------------------------------------------------
(* RewindablePropertyIO: the state of two rewindable properties of one      *)
(* parameter type, p1 written by the sim and p2 set from p1's state object, *)
(* and the cache of the IO types created so far.  A Vector2 is a record, its *)
(* state object the pair of its coordinates; a number is its own state      *)
(* object.  An IO type is the object created for a parameter type, told     *)
(* apart by id.                                                             *)

ParameterTypes == {"NumberIO", "Vector2IO"}
ValuesOfType(t) == IF t = "NumberIO" THEN {0, 1, 2} ELSE {ZERO, Vec(1, 2), Vec(2, 1)}

parameterType_toStateObject(t, v) == IF t = "NumberIO" THEN v ELSE << v.x, v.y >>
parameterType_fromStateObject(t, so) == IF t = "NumberIO" THEN so ELSE Vec(so[1], so[2])

\* Property.PropertyIO( parameterType )
PropertyIOImpl_toStateObject(t, property) ==
  [value |-> parameterType_toStateObject(t, property.value)]
PropertyIOImpl_applyState(t, property, stateObject) ==
  RP_set(property, parameterType_fromStateObject(t, stateObject.value))

toStateObject(t, property) ==
  LET stateObject == PropertyIOImpl_toStateObject(t, property)
  IN  [value |-> stateObject.value,
       rewindValue |-> parameterType_toStateObject(t, property.rewindValue)]

\* variant: only the supertype's state is applied
applyState_valueOnly(t, property, stateObject) ==
  PropertyIOImpl_applyState(t, property, stateObject)

applyState(t, property, stateObject) ==
  [PropertyIOImpl_applyState(t, property, stateObject)
     EXCEPT !.rewindValue = parameterType_fromStateObject(t, stateObject.rewindValue)]

\* RewindablePropertyIO( parameterType ): the cache after the call and the IO type returned
RewindablePropertyIO(cache, t) ==
  LET filled == IF t \in DOMAIN cache THEN cache
                ELSE [k \in DOMAIN cache \cup {t} |->
                        IF k = t THEN [typeName |-> t, id |-> Cardinality(DOMAIN cache) + 1]
                        ELSE cache[k]]
  IN  [cache |-> filled, ioType |-> filled[t]]

IOInit ==
  /\ ModelIdle
  /\ engine = Idle /\ mode = Idle
  /\ \E t \in ParameterTypes : \E v \in ValuesOfType(t) :
        io = [ parameterType |-> t,
               p1 |-> RewindableProperty(v),
               p2 |-> RewindableProperty(v),
               before |-> RewindableProperty(v),
               cache |-> [k \in {} |-> 0],
               returned |-> [k \in ParameterTypes |-> {}],
               hit |-> FALSE,
               last |-> "construct" ]

\* the rest of the state is left alone
IOFrame ==
  /\ UNCHANGED << engine, mode >>
  /\ ModelUnchanged

\* the sim sets p1
IOSet(v) ==
  /\ v \in ValuesOfType(io.parameterType)
  /\ v # io.p1.value
  /\ io' = [io EXCEPT !.p1 = RP_set(@, v), !.last = "set"]
  /\ IOFrame

\* the sim anchors p1
IOStoreRewindValue ==
  /\ io.p1.rewindValue # io.p1.value
  /\ io' = [io EXCEPT !.p1 = RP_storeRewindValue(@), !.last = "storeRewindValue"]
  /\ IOFrame

\* p2 is set and anchored by its own sim
IOSetTarget(v) ==
  /\ v \in ValuesOfType(io.parameterType)
  /\ RewindableProperty(v) # io.p2
  /\ io' = [io EXCEPT !.p2 = RewindableProperty(v), !.last = "setTarget"]
  /\ IOFrame

\* the state of p1 is applied to p2, with the IO type of their parameter type
IORoundTrip ==
  LET t == io.parameterType
      got == RewindablePropertyIO(io.cache, t)
  IN  /\ io' = [io EXCEPT !.p2 = applyState(t, @, toStateObject(t, io.p1)),
                          !.before = io.p2,
                          !.cache = got.cache,
                          !.returned[t] = @ \cup {got.ioType},
                          !.hit = @ \/ t \in DOMAIN io.cache,
                          !.last = "applyState"]
      /\ IOFrame

\* RewindablePropertyIO( t ) is called
IOGetType(t) ==
  LET got == RewindablePropertyIO(io.cache, t)
  IN  /\ io' = [io EXCEPT !.cache = got.cache,
                          !.returned[t] = @ \cup {got.ioType},
                          !.hit = @ \/ t \in DOMAIN io.cache,
                          !.last = "getType"]
      /\ IOFrame

IONext ==
  \/ \E v \in ValuesOfType(io.parameterType) : IOSet(v)
  \/ IOStoreRewindValue
  \/ \E v \in ValuesOfType(io.parameterType) : IOSetTarget(v)
  \/ IORoundTrip
  \/ \E t \in ParameterTypes : IOGetType(t)

IOSpec == IOInit /\ [][IONext]_vars

----------------------------------------------------------------------------
(* The legacy GravityAndOrbitsMode: the play button, the active flag, the   *)
(* clock and rewindClockTime of one mode.  The bodies of the mode do not    *)
(* touch the clock and are left out.  before is the simulation time before  *)
(* the last operation.                                                      *)

\* clock.setRunning( playButtonPressed && active ) of the multilink, and the
\* onValue( false, ... ) listener of runningProperty, which runs when the value
\* becomes false
Mode_setRunning(m, running) ==
  IF running = m.running THEN m
  ELSE IF running THEN [m EXCEPT !.running = TRUE]
       ELSE [m EXCEPT !.running = FALSE, !.rewindClockTime = m.time]

Mode_multilink(m) == Mode_setRunning(m, m.playButtonPressed /\ m.active)

\* the mode as constructed: the onValue listener runs once, the clock being paused
ModeInit ==
  /\ ModelIdle
  /\ engine = Idle /\ io = Idle
  /\ \E a \in BOOLEAN :
        mode = [ playButtonPressed |-> FALSE, active |-> a, running |-> FALSE,
                 time |-> 0, rewindClockTime |-> 0, before |-> 0,
                 steps |-> 0, last |-> "construct" ]

\* the mode m after one more operation
ModeOp(m, name) ==
  [m EXCEPT !.before = mode.time, !.steps = mode.steps + 1, !.last = name]

\* the operations are counted, and the rest of the state is left alone
ModeFrame ==
  /\ mode.steps < MaxOps
  /\ UNCHANGED << engine, io >>
  /\ ModelUnchanged

\* the play / pause button
ModeTogglePlay ==
  /\ mode' = ModeOp(Mode_multilink([mode EXCEPT !.playButtonPressed = ~@]), "togglePlay")
  /\ ModeFrame

\* the mode is selected or deselected
ModeSetActive ==
  /\ mode' = ModeOp(Mode_multilink([mode EXCEPT !.active = ~@]), "setActive")
  /\ ModeFrame

\* a tick of the running clock, or the step button while paused
ModeStep ==
  /\ mode' = ModeOp([mode EXCEPT !.time = @ + 1], IF mode.running THEN "tick" ELSE "stepButton")
  /\ ModeFrame

\* reset(): clock.resetSimulationTime()
ModeReset ==
  /\ mode' = ModeOp([mode EXCEPT !.time = 0], "reset")
  /\ ModeFrame

\* resetMode(): clock.setSimulationTime( 0.0 )
ModeResetMode ==
  /\ mode' = ModeOp([mode EXCEPT !.time = 0], "resetMode")
  /\ ModeFrame

\* rewind(): clock.setSimulationTime( this.rewindClockTime )
ModeRewind ==
  /\ mode' = ModeOp([mode EXCEPT !.time = mode.rewindClockTime], "rewind")
  /\ ModeFrame

ModeNext ==
  \/ ModeTogglePlay
  \/ ModeSetActive
  \/ ModeStep
  \/ ModeReset
  \/ ModeResetMode
  \/ ModeRewind

ModeSpec == ModeInit /\ [][ModeNext]_vars

----------------------------------------------------------------------------
(* The state machine with the zoom control of the selected scene: a session *)
(* that zooms, plays, steps, switches scene and resets.                     *)

\* the zoom control of the selected scene
SetZoom(z) ==
  LET s == sceneProperty
  IN  /\ z # scenes[s].zoomLevelProperty
      /\ scenes' = [scenes EXCEPT ![s] = setZoomLevel(s, @, z)]
      /\ Op("setZoom", {})
      /\ UNCHANGED << Globals, isPlayingProperty, sceneProperty, saveWhilePlaying, savedState >>

ZoomNext ==
  \/ \E z \in ZoomLevels : SetZoom(z)
  \/ TogglePlay
  \/ \E s \in Scenes : SelectScene(s)
  \/ Step
  \/ ResetScene
  \/ ResetAll

ZoomSpec == Init /\ [][ZoomNext]_vars

----------------------------------------------------------------------------
(* Properties *)

Selected == scenes[sceneProperty]

\* every rewind point of every body of every scene is unchanged by the step
RewindPointsUnchanged ==
  \A s \in Scenes : Anchors(scenes'[s]) = Anchors(scenes[s])

\* C1 (rewind idempotence): after saveState() and any value changes without a
\* save or reset, rewind() leaves every body of the scene with exactly the
\* position, velocity and mass held at saveState() time; a second rewind()
\* right after changes neither the values nor the rewind points.
C1_RewindIdempotence ==
  /\ [](lastOp.name = "rewind" /\ savedState[sceneProperty].saved
          => Snapshot(Selected) = savedState[sceneProperty].values)
  /\ [][lastOp.name = "rewind" /\ lastOp'.name = "rewind"
          => /\ Snapshot(scenes'[sceneProperty]) = Snapshot(Selected)
             /\ Anchors(scenes'[sceneProperty]) = Anchors(Selected)]_vars

\* a rewind after a save of edited values and a change of values since
C1_Witness ==
  /\ lastOp.name = "rewind"
  /\ {"unsaved", "timed"} \subseteq lastOp.pre
  /\ savedState[sceneProperty].saved
  /\ savedState[sceneProperty].mutated
  /\ savedState[sceneProperty].values # InitialSnapshot(sceneProperty)

\* C2 (reset determinism): right after resetScene() every body of the scene has
\* its construction-time position, velocity and mass.
C2_ResetDeterminism ==
  lastOp.name = "resetScene" => Snapshot(Selected) = InitialSnapshot(sceneProperty)

\* a resetScene() of a scene with edited values, played and with unsaved changes
C2_Witness ==
  /\ lastOp.name = "resetScene"
  /\ {"edited", "timed", "unsaved"} \subseteq lastOp.pre

\* C3: right after resetScene() the scene's simulation time is 0, its
\* deviatedFromDefaults flag is false and none of its bodies is collided.
C3_ResetSceneClears ==
  lastOp.name = "resetScene"
    => /\ Selected.time = 0
       /\ ~Selected.deviatedFromDefaultsProperty
       /\ \A b \in BodiesOf(sceneProperty) : ~Selected.bodies[b].collided

\* a resetScene() after a mass edit, with time run and bodies collided
C3_Witness ==
  /\ lastOp.name = "resetScene"
  /\ {"massEdited", "timed", "collided"} \subseteq lastOp.pre

\* C4: an operation that calls neither saveState() nor a reset (an engine step,
\* a position or mass edit, a velocity edit while playing, play / pause, a
\* scene switch, a rewind) leaves every rewind point as it was.
C4_RewindPointDecoupled ==
  [][ \/ lastOp'.name \in {"step", "setPosition", "setMass", "togglePlay", "selectScene",
                           "rewind"}
      \/ (lastOp'.name = "setVelocity" /\ isPlayingProperty)
      => RewindPointsUnchanged ]_vars

\* an engine step that leaves a moved position and an edited mass off their rewind points
C4_Witness ==
  /\ lastOp.name = "step"
  /\ \E b \in BodiesOf(sceneProperty) :
        Selected.bodies[b].position.value # Selected.bodies[b].position.rewindValue
  /\ \E b \in BodiesOf(sceneProperty) :
        Selected.bodies[b].mass.value # Selected.bodies[b].mass.rewindValue

\* C5: saveState() never runs while isPlaying is true (its assertion holds at
\* every call).
C5_SaveOnlyWhilePaused == ~saveWhilePlaying

\* saveState() has just run from the velocity listener, in a scene that has played
C5_Witness ==
  /\ lastOp.name = "setVelocity"
  /\ "timed" \in lastOp.pre
  /\ ~isPlayingProperty
  /\ savedState[sceneProperty].saved
  /\ ~savedState[sceneProperty].mutated

\* C6: a user velocity edit while paused leaves every body of the scene with
\* every rewind point equal to its current value; while playing it changes no
\* rewind point.
C6_VelocityEditSaves ==
  /\ [](lastOp.name = "setVelocity" /\ ~isPlayingProperty
          => Anchors(Selected) = Snapshot(Selected))
  /\ [][lastOp'.name = "setVelocity" /\ isPlayingProperty' => RewindPointsUnchanged]_vars

\* a velocity edit while paused when another body had unsaved changes
C6_Witness ==
  /\ lastOp.name = "setVelocity"
  /\ "othersUnsaved" \in lastOp.pre
  /\ ~isPlayingProperty

\* C7: rewind() leaves the simulation time at 0 and every body at its rewind
\* point: no position has been advanced by a velocity, no path point added.
C7_RewindNoIntegration ==
  [][lastOp'.name = "rewind"
       => /\ scenes'[sceneProperty].time = 0
          /\ Snapshot(scenes'[sceneProperty]) = Anchors(Selected)
          /\ \A b \in BodiesOf(sceneProperty) :
                scenes'[sceneProperty].bodies[b].path = Selected.bodies[b].path]_vars

\* a rewind at a positive time that restores a moving body
C7_Witness ==
  /\ lastOp.name = "rewind"
  /\ {"timed", "unsaved"} \subseteq lastOp.pre
  /\ \E b \in BodiesOf(sceneProperty) : Selected.bodies[b].velocity.value # ZERO

\* C8: a scene's clock is running iff isPlaying is true and the scene is active.
C8_RunningIffPlayingAndActive ==
  \A s \in Scenes :
    scenes[s].isRunning <=> (isPlayingProperty /\ scenes[s].activeProperty)

\* a scene switch while playing: the clock of the newly selected scene runs
C8_Witness ==
  /\ lastOp.name = "selectScene"
  /\ sceneProperty # InitialScene
  /\ Selected.isRunning
  /\ \E s \in Scenes : ~scenes[s].isRunning

C10_SceneIsolation ==
  [][lastOp'.name = "step"
       => \A s \in Scenes \ {sceneProperty} : scenes'[s] = scenes[s]]_vars

\* a step while playing, the other scene holding a collided body
C10_Witness ==
  /\ lastOp.name = "step"
  /\ isPlayingProperty
  /\ Selected.time > 0
  /\ \E s \in Scenes \ {sceneProperty} :
        /\ scenes[s].time > 0
        /\ \E b \in BodiesOf(s) : scenes[s].bodies[b].collided

\* C11 (pausing takes effect before the next frame): a step( dt ) of the model
\* taken while isPlaying is false leaves the simulation time and every body's
\* position, velocity, mass and path unchanged, in every scene.
C11_PausedStepIsNoOp ==
  [][lastOp'.name = "step" /\ ~isPlayingProperty
       => \A s \in Scenes :
            /\ scenes'[s].time = scenes[s].time
            /\ Snapshot(scenes'[s]) = Snapshot(scenes[s])
            /\ \A b \in BodiesOf(s) : scenes'[s].bodies[b].path = scenes[s].bodies[b].path]_vars

\* a frame while paused, in a scene that has run and holds a moving, non-collided body
C11_Witness ==
  /\ lastOp.name = "step"
  /\ ~isPlayingProperty
  /\ Selected.time > 0
  /\ \E b \in BodiesOf(sceneProperty) :
        /\ ~Selected.bodies[b].collided
        /\ Selected.bodies[b].velocity.value # ZERO

\* C12 (time monotonicity): a scene's simulation time is never negative; it
\* decreases only by rewind(), resetScene() or reset(), which leave it at 0; and
\* every step taken while the scene's clock is running increases it.
C12_TimeMonotone ==
  /\ [](\A s \in Scenes : scenes[s].time >= 0)
  /\ [][\A s \in Scenes :
          scenes'[s].time < scenes[s].time
            => lastOp'.name \in {"rewind", "resetScene", "reset"} /\ scenes'[s].time = 0]_vars
  /\ [][lastOp'.name = "step" /\ Selected.isRunning
          => scenes'[sceneProperty].time > Selected.time]_vars

\* a second tick of a running clock
C12_Witness ==
  /\ lastOp.name = "step"
  /\ Selected.isRunning
  /\ Selected.time >= 2 * SceneDt(sceneProperty)

\* C13 (collision finality): a collided flag stays true until resetScene() or
\* reset(), and after every engine step taken with the flag true the body is
\* still collided with velocity (0,0), whatever was done in between.
C13_CollisionFinality ==
  /\ [][\A s \in Scenes : \A b \in BodiesOf(s) :
          scenes[s].bodies[b].collided /\ lastOp'.name \notin {"resetScene", "reset"}
            => scenes'[s].bodies[b].collided]_vars
  /\ [][lastOp'.name = "step" /\ Selected.isRunning
          => \A b \in BodiesOf(sceneProperty) :
               Selected.bodies[b].collided
                 => /\ scenes'[sceneProperty].bodies[b].collided
                    /\ scenes'[sceneProperty].bodies[b].velocity.value = ZERO]_vars

Sign(n) == IF n < 0 THEN -1 ELSE IF n > 0 THEN 1 ELSE 0

\* the acceleration of b in the body set bs
acceleration(bs, b) == dividedScalar(netForce(bs, b, TRUE), bs[b].mass.value)

\* C16 (Newton's third law): for every pair of non-collided bodies the force on
\* one is the exact negative of the force on the other, the forces of a scene sum
\* to zero, and in a two-body system each body's acceleration points toward the
\* other body with magnitude G * (mass of the other) / r^2 (truncated to the
\* integer grid; the magnitude is compared for separations along an axis, where
\* the grid represents it exactly).
C16_NewtonThirdLaw ==
  \A s \in Scenes : \A b, c \in BodiesOf(s) :
    LET bs == scenes[s].bodies
        d  == minus(bs[c].position.value, bs[b].position.value)
        r2 == magnitudeSquared(d)
        a  == acceleration(bs, b)
    IN  b # c /\ ~bs[b].collided /\ ~bs[c].collided
          => /\ getForce(bs, b, c) = timesScalar(getForce(bs, c, b), -1)
             /\ plus(netForce(bs, b, TRUE), netForce(bs, c, TRUE)) = ZERO
             /\ a.x * d.x >= 0 /\ a.y * d.y >= 0
             /\ (r2 > 0 /\ (d.x = 0 \/ d.y = 0))
                  => a = Vec(Sign(d.x) * ((G * bs[c].mass.value) \div r2),
                             Sign(d.y) * ((G * bs[c].mass.value) \div r2))

\* two bodies of unequal mass, off the axes from each other, attract each other
C16_Witness ==
  \E s \in Scenes : \E b, c \in BodiesOf(s) :
    LET bs == scenes[s].bodies
        d  == minus(bs[c].position.value, bs[b].position.value)
    IN  /\ b # c /\ ~bs[b].collided /\ ~bs[c].collided
        /\ bs[b].mass.value # bs[c].mass.value
        /\ d.x # 0 /\ d.y # 0
        /\ getForce(bs, b, c) # ZERO
        /\ acceleration(bs, b) # acceleration(bs, c)

\* C18: right after the global reset() the deviatedFromDefaults flag of every
\* scene is false, also when the user had changed a body's mass before.
C18_ResetClearsDeviated ==
  lastOp.name = "reset" => \A s \in Scenes : ~scenes[s].deviatedFromDefaultsProperty

\* C19: deviatedFromDefaults is false after construction, false after
\* resetScene() and reset(), and no operation other than a user modification of
\* a mass, position or velocity sets it; so it is false whenever the user has
\* modified nothing since construction or the last reset.
C19_DeviatedTracksUser ==
  /\ \A s \in Scenes : ~scenes[s].deviatedFromDefaultsProperty
  /\ [](lastOp.name = "resetScene" => ~Selected.deviatedFromDefaultsProperty)
  /\ [](lastOp.name = "reset" => \A s \in Scenes : ~scenes[s].deviatedFromDefaultsProperty)
  /\ [][lastOp'.name \notin {"setPosition", "setVelocity", "setMass"}
          => \A s \in Scenes :
               scenes'[s].deviatedFromDefaultsProperty => scenes[s].deviatedFromDefaultsProperty]_vars

\* the step handed to the engine on a tick of scene s
TickDt(s) == SceneDt(s) * SpeedScale(timeSpeedProperty)

\* C14 (collision detection): after an engine step, every pair of bodies whose
\* centers are closer than the sum of their radii has both bodies collided with
\* velocity (0,0), with gravity enabled and with gravity disabled.
C14_CollisionDetection ==
  lastOp.name = "step" /\ Selected.isRunning
    => \A b, c \in BodiesOf(sceneProperty) :
         b # c /\ overlap(sceneProperty, Selected.bodies, b, c)
           => /\ Selected.bodies[b].collided /\ Selected.bodies[c].collided
              /\ Selected.bodies[b].velocity.value = ZERO
              /\ Selected.bodies[c].velocity.value = ZERO

\* an engine step with gravity disabled in which an overlapping pair has just collided
C14_Witness ==
  /\ lastOp.name = "step" /\ Selected.isRunning
  /\ ~gravityEnabledProperty
  /\ \E b, c \in BodiesOf(sceneProperty) :
        /\ b # c /\ overlap(sceneProperty, Selected.bodies, b, c)
        /\ Selected.bodies[b].clockTicksSinceExplosion = 0
        /\ Selected.bodies[c].clockTicksSinceExplosion = 0

\* C15 (gravity disabled): an engine step with gravity disabled leaves every body
\* that is not collided with its velocity unchanged, its force zero, and its
\* position advanced by velocity * dt; so N steps advance it by velocity * N * dt.
C15_GravityDisabledLinear ==
  [][lastOp'.name = "step" /\ Selected.isRunning /\ ~gravityEnabledProperty
       => \A b \in BodiesOf(sceneProperty) :
            LET old == Selected.bodies[b]
                new == scenes'[sceneProperty].bodies[b]
            IN  ~new.collided
                  => /\ new.velocity.value = old.velocity.value
                     /\ new.force = ZERO
                     /\ new.position.value =
                          plus(old.position.value,
                               timesScalar(old.velocity.value, TickDt(sceneProperty)))]_vars

\* two or more steps with gravity disabled next to a massive body: the moving
\* body is at position(0) + velocity(0) * N * dt
C15_Witness ==
  /\ lastOp.name = "step" /\ Selected.isRunning
  /\ ~gravityEnabledProperty
  /\ Selected.time >= 2 * TickDt(sceneProperty)
  /\ \E b \in BodiesOf(sceneProperty) :
        /\ ~Selected.bodies[b].collided
        /\ Selected.bodies[b].velocity.value # ZERO
        /\ Selected.bodies[b].position.value =
             plus(BodyConfiguration(sceneProperty, b).position,
                  timesScalar(BodyConfiguration(sceneProperty, b).velocity, Selected.time))

\* C17: right after the global reset() every show toggle is false, gravity is
\* enabled, isPlaying is false, the speed is NORMAL, stepping and rewinding are
\* false, the initial scene is selected, and every scene has zoom level 1,
\* simulation time 0 and every body at its construction-time values.
C17_AfterReset ==
  lastOp.name = "reset"
    => /\ \A n \in ShowNames : ~showProperties[n]
       /\ gravityEnabledProperty
       /\ ~isPlayingProperty
       /\ timeSpeedProperty = "NORMAL"
       /\ ~steppingProperty /\ ~rewindingProperty
       /\ sceneProperty = InitialScene
       /\ \A s \in Scenes :
            /\ scenes[s].zoomLevelProperty = 1
            /\ scenes[s].time = 0
            /\ Snapshot(scenes[s]) = InitialSnapshot(s)

\* a reset-all with every setting changed, from another scene, both scenes having run
C17_Witness ==
  /\ lastOp.name = "reset"
  /\ {"shown", "gravityOff", "speedChanged", "zoomed", "switched", "timed", "edited",
      "othersTimed"} \subseteq lastOp.pre

Live(bs) == [b \in {c \in DOMAIN bs : ~bs[c].collided} |-> bs[b]]

\* collided bodies exert no force: the force on every non-collided body, as
\* computed and as stored by a step, is the force of the non-collided bodies alone
ForceFromLiveBodies ==
  /\ \A b \in DOMAIN Live(engine.bodies) :
       netForce(engine.bodies, b, engine.gravityEnabled)
         = netForce(Live(engine.bodies), b, engine.gravityEnabled)
  /\ engine.last = "step"
       => \A b \in DOMAIN Live(engine.prev) :
            engine.bodies[b].force = netForce(Live(engine.prev), b, engine.gravityEnabled)

\* C22 as stated (collided bodies are inert): an engine step changes neither the
\* position nor the velocity of a body that was collided before it, and collided
\* bodies contribute no force to the others.
C22_CollidedInert ==
  /\ engine.last = "step"
       => \A b \in BodiesOf(EngineScene) :
            engine.prev[b].collided
              => /\ engine.bodies[b].position.value = engine.prev[b].position.value
                 /\ engine.bodies[b].velocity.value = engine.prev[b].velocity.value
  /\ ForceFromLiveBodies

\* C22, amended: an engine step does not move a body that was collided before it
\* and leaves its velocity as it was, or sets it to (0,0) if the body still
\* overlaps another one; collided bodies contribute no force to the others.
C22_CollidedInertAmended ==
  /\ engine.last = "step"
       => \A b \in BodiesOf(EngineScene) :
            engine.prev[b].collided
              => /\ engine.bodies[b].collided
                 /\ engine.bodies[b].position.value = engine.prev[b].position.value
                 /\ \/ engine.bodies[b].velocity.value = engine.prev[b].velocity.value
                    \/ /\ engine.bodies[b].velocity.value = ZERO
                       /\ \E c \in BodiesOf(EngineScene) \ {b} :
                             overlap(EngineScene, engine.bodies, b, c)
  /\ ForceFromLiveBodies

\* a step with gravity in which a body stays non-collided, and free of force,
\* next to collided bodies that would have pulled at it, and moves on
C22_Witness ==
  /\ engine.last = "step" /\ engine.gravityEnabled
  /\ \E b, c \in BodiesOf(EngineScene) :
        /\ engine.prev[b].collided /\ ~engine.prev[c].collided /\ ~engine.bodies[c].collided
        /\ engine.bodies[c].force = ZERO
        /\ getForce(engine.prev, c, b) # ZERO
        /\ engine.bodies[c].position.value # engine.prev[c].position.value
        /\ engine.bodies[b].position.value = engine.prev[b].position.value

\* C23 (near-zero distance is a collision, not a force): in an engine step, a
\* pair of non-collided bodies that starts the step at distance zero, or closer
\* than the sum of its radii, has no gravitational force computed between its
\* two bodies and ends the step collided with velocity (0,0).
C23_NearZeroIsCollision ==
  engine.last = "step"
    => \A b, c \in BodiesOf(EngineScene) :
         /\ b # c /\ ~engine.prev[b].collided /\ ~engine.prev[c].collided
         /\ overlap(EngineScene, engine.prev, b, c)
         => /\ engine.bodies[b].collided /\ engine.bodies[c].collided
            /\ engine.bodies[b].velocity.value = ZERO
            /\ engine.bodies[c].velocity.value = ZERO
            /\ engine.bodies[b].force
                 = netForce([d \in DOMAIN engine.prev \ {c} |-> engine.prev[d]], b,
                            engine.gravityEnabled)

Replayed ==
  /\ engine.replay.saved /\ engine.replay.rewinds > 0
  /\ engine.replay.k > 0 /\ engine.replay.k = Len(engine.replay.first)

\* some body collided within the first k steps after the save
CollidedInFirstRun ==
  \E b \in BodiesOf(EngineScene) :
    engine.replay.first[engine.replay.k][b].collided /\ ~engine.replay.start[b].collided

C26_ResetReanchors ==
  lastOp.name = "rewind" /\ ~savedState[sceneProperty].saved
    => Snapshot(Selected) = InitialSnapshot(sceneProperty)

\* a rewind() right after the reset of a scene whose saved rewind point held
\* edited values
C26_Witness ==
  /\ lastOp.name = "rewind"
  /\ "afterResetOfSaved" \in lastOp.pre
  /\ ~savedState[sceneProperty].saved

\* C27 (explosion counter): each step(dt) of the model increases
\* clockTicksSinceExplosion by exactly 1 for every body of the selected scene
\* that is collided, whether the sim is playing or paused, and leaves the counter
\* of every non-collided body and of every body of the other scenes unchanged.
C27_ExplosionCounter ==
  [][lastOp'.name = "step"
       => \A s \in Scenes : \A b \in BodiesOf(s) :
            scenes'[s].bodies[b].clockTicksSinceExplosion
              = scenes[s].bodies[b].clockTicksSinceExplosion
                + (IF s = sceneProperty /\ scenes[s].bodies[b].collided THEN 1 ELSE 0)]_vars

\* a step while paused, after which the counter of a collided body has been
\* increased twice
C27_Witness ==
  /\ lastOp.name = "step"
  /\ ~isPlayingProperty
  /\ \E b \in BodiesOf(sceneProperty) :
        /\ Selected.bodies[b].collided
        /\ Selected.bodies[b].clockTicksSinceExplosion >= 2

\* the stored bounds and transform of scene s are the ones createTransform gives
\* at the scene's zoom level
TransformCurrent(s) ==
  LET created == createTransform(scenes[s], defaultZoomScale(s), zoomOffset(s))
  IN  /\ scenes[s].modelBoundsProperty = created.modelBounds
      /\ scenes[s].transformProperty = created.transform

\* the stored bounds of scene s are centred on zoomOffset, their size times
\* defaultZoomScale * zoomLevel is the size of the stage, and the stored transform
\* maps their corners onto the corners of the stage, y inverted
BoundsAsSpecified(s) ==
  LET mb == scenes[s].modelBoundsProperty
      scale == defaultZoomScale(s) * scenes[s].zoomLevelProperty
  IN  /\ mb.minX + mb.maxX = 2 * zoomOffset(s).x
      /\ mb.minY + mb.maxY = 2 * zoomOffset(s).y
      /\ (mb.maxX - mb.minX) * scale = PLAY_AREA_WIDTH
      /\ (mb.maxY - mb.minY) * scale = PLAY_AREA_HEIGHT
      /\ modelToViewPosition(scenes[s].transformProperty, Vec(mb.minX, mb.minY))
           = Vec(0, PLAY_AREA_HEIGHT)
      /\ modelToViewPosition(scenes[s].transformProperty, Vec(mb.maxX, mb.maxY))
           = Vec(PLAY_AREA_WIDTH, 0)

\* C28 (the transform is never stale and is per scene): in every reachable state
\* the modelBounds and transform of every scene are createTransform(
\* defaultZoomScale, zoomOffset) at the scene's current zoom level, centred on
\* zoomOffset with a size inversely proportional to defaultZoomScale * zoomLevel
\* and mapped onto the stage rectangle, also after a reset; a change of a scene's
\* zoom level changes no body, no simulation time and no other scene's zoom or
\* transform.
C28_TransformCurrent ==
  /\ [](\A s \in Scenes : TransformCurrent(s) /\ BoundsAsSpecified(s))
  /\ [][lastOp'.name = "setZoom"
          => \A s \in Scenes :
               /\ scenes'[s].bodies = scenes[s].bodies
               /\ scenes'[s].time = scenes[s].time
               /\ s # sceneProperty
                    => /\ scenes'[s].zoomLevelProperty = scenes[s].zoomLevelProperty
                       /\ scenes'[s].modelBoundsProperty = scenes[s].modelBoundsProperty
                       /\ scenes'[s].transformProperty = scenes[s].transformProperty]_vars

\* a zoom of a scene that has run, while another scene is zoomed too
C28_Witness ==
  /\ lastOp.name = "setZoom"
  /\ Selected.zoomLevelProperty # 1
  /\ Selected.time > 0
  /\ \E s \in Scenes \ {sceneProperty} : scenes[s].zoomLevelProperty # 1

\* C29 (state round trip of a rewindable property): applyState(p2,
\* toStateObject(p1)) makes p2 equal to p1 in the current value and in the rewind
\* value, so that a rewind() after it restores on p2 the value it restores on p1;
\* and RewindablePropertyIO(t) returns the same IO type object on every call with
\* the same parameter type t.
C29_RoundTrip ==
  /\ io.last = "applyState"
       => /\ io.p2.value = io.p1.value
          /\ io.p2.rewindValue = io.p1.rewindValue
          /\ RP_rewind(io.p2).value = RP_rewind(io.p1).value
  /\ \A t \in ParameterTypes : Cardinality(io.returned[t]) <= 1

\* a round trip of a Vector2 property whose value and rewind value differ, into a
\* property that held other values, with an IO type taken from the cache
C29_Witness ==
  /\ io.last = "applyState"
  /\ io.parameterType = "Vector2IO"
  /\ io.p1.value # io.p1.rewindValue
  /\ io.before.value # io.p1.value
  /\ io.before.rewindValue # io.p1.rewindValue
  /\ io.before.rewindValue # io.p1.value
  /\ io.hit
  /\ \A t \in ParameterTypes : io.returned[t] # {}

\* C30 (legacy GravityAndOrbitsMode): rewind() never moves the simulation time
\* forward: after any sequence of play, pause, step, reset(), resetMode() and
\* rewind(), the simulation time after rewind() is at most the simulation time
\* just before it.
C30_RewindNeverForward ==
  mode.last = "rewind" => mode.time <= mode.before

====
